---- MODULE Spec2Model ----
(***************************************************************************)
(* The 2-step UHF-CASSCF driver `kernel` of mcscf/mc2step_uhf.py as a      *)
(* state machine: one action per statement group of the function, the      *)
(* collaborators (ao2mo, casci, fcisolver.make_rdm12s, rotate_orb_cc, the  *)
(* callback, dump_chk) as nondeterministic calls that either return a      *)
(* value or raise.                                                         *)
(*                                                                         *)
(* Abstraction of the numerics.  The (alpha, beta) pair of orbital         *)
(* matrices is one element of the cyclic group Z_NRot, the per-channel     *)
(* matrix product is the group operation and the pair of identity matrices *)
(* is 0; numpy.linalg.norm(u - eye) is the cyclic distance of the rotation *)
(* to the identity.  The 1-particle density matrices are a pair of 1x1     *)
(* arrays and the orbital gradient a 1-element array of small naturals, so *)
(* their Frobenius norm is the absolute value.  Total energies are small   *)
(* naturals.  An integral handle is the orbitals it was transformed from;  *)
(* a CI vector, an active-space energy and a 2-particle density matrix are *)
(* opaque to kernel and stand as the number of the casci call they come    *)
(* from (0 for ci0).  Every step of one run reports the same number jk of  *)
(* inner iterations.  kernel treats all orbitals alike (it only multiplies *)
(* them by the rotations), so one non-identity mo_coeff stands for all.    *)
(***************************************************************************)
EXTENDS Integers, Naturals, Sequences, FiniteSets, TLC

\* ------------------------------------------------------------- bounds
MaxMacro == 2      \* macro is drawn from 0..MaxMacro
MaxMicro == 2      \* micro is drawn from 0..MaxMicro
MaxJK == 2         \* inner (JK) iterations reported with a step: 1..MaxJK

\* ------------------------------------------------------------- value domains
Tolerances == {0, 1, 2}       \* tol; 0 is an invalid tolerance
GradTolerances == {1, 2}      \* casscf.conv_tol_grad
Energies == {0, 1}            \* total energies casci returns
DmEntries == {0, 1}           \* entries of the 1-particle density matrices
GradEntries == {0, 1}         \* entries of the orbital gradient
OrbitalCounts == {<<1, 1>>, <<1, 2>>, <<2, 2>>}    \* <<ncas, nmo>>
Rotations == {0, 1}           \* the group of orbital rotations, Z_2
NRot == Cardinality(Rotations)
Eye == 0                      \* numpy.eye(nmo)
NoEris == -1                  \* eris = None
Collaborators ==
    {"ao2mo", "casci", "make_rdm12s", "rotate_orb_cc", "rota.next",
     "callback", "dump_chk"}
NoResult == << >>

VARIABLES
    \* arguments of kernel and attributes of casscf read by it
    macro, micro, tol, toloose, ncas, nmo, dump_chk, callback, mo_coeff,
    \* the inner-iteration count the rotation generator reports with every
    \* step of this run
    jk,
    \* local variables of kernel
    mo, eris, e_tot, e_ci, fcivec, elast, conv, totmicro, totinner,
    casdm1, casdm1_old, casdm2, norm_ddm, imacro, imicro, ninner,
    rota, u, g_orb, njk, norm_t, norm_gorb,
    bound,      \* the loop variables that have been assigned so far
    macroIt,    \* next index range(macro) yields: the macro bodies entered
    microIt,    \* next index range(micro) yields: the micro bodies entered
                \* in this macro iteration
    \* control
    pc,         \* position in kernel
    exc,        \* the exception that left kernel, "none" while there is none
    ret,        \* the returned tuple, NoResult while nothing was returned
    \* history
    calls,      \* number of calls made to each collaborator
    lastCall,   \* <<collaborator, returned normally>> of the latest call
    test,       \* the three comparisons of this macro iteration's convergence test
    hits,       \* the two comparisons of each micro exit test of this macro
                \* iteration
    microAll,   \* micro bodies entered over all macro iterations
    mo_gen,     \* the orbitals the latest rotation generator was created from
    innerAll,   \* sum of the inner counts returned with all steps so far
    casci_in,   \* <<mo, CI seed, eris>> handed to the latest casci call
    e_prev,     \* from a casci call to the convergence test after it: e_tot as
                \* it was before that call; else the latest e_tot
    chk,        \* <<conv, fcivec>> in the locals handed to the latest dump_chk
    cb          \* <<mo, eris>> in the locals handed to the latest callback

args == <<macro, micro, tol, toloose, ncas, nmo, dump_chk, callback, mo_coeff,
          jk>>
orbs == <<mo, eris>>
cires == <<e_tot, e_ci, fcivec>>
dms == <<casdm1, casdm1_old, casdm2, norm_ddm>>
step == <<u, g_orb, njk, norm_t, norm_gorb>>
totals == <<totmicro, totinner>>
loops == <<imacro, imicro, bound, macroIt, microIt, hits>>
ctl == <<pc, exc, ret>>
hist == <<calls, lastCall>>
ghost == <<microAll, mo_gen>>
handed == <<innerAll, casci_in, e_prev, chk, cb>>
vars == <<args, orbs, cires, dms, step, totals, loops, ctl, hist, ghost, handed,
          elast, conv, ninner, rota, test>>

\* ------------------------------------------------------------- numerics
Abs(x) == IF x < 0 THEN -x ELSE x

\* mo = list(map(numpy.dot, mo, u))
Rotate(m, r) == (m + r) % NRot

\* numpy.linalg.norm(u - numpy.eye(nmo))
NormT(r) == IF r <= NRot - r THEN r ELSE NRot - r

\* numpy.linalg.norm(g_orb)
NormG(g) == Abs(g)

\* norm(casdm1[0] - casdm1_old[0]) + norm(casdm1[1] - casdm1_old[1])
\* a change norm that looks at the alpha density matrix alone
NormDdm_AlphaOnly(new, old) == Abs(new[1] - old[1])

NormDdm(new, old) == Abs(new[1] - old[1]) + Abs(new[2] - old[2])

\* the handle casscf.ao2mo(mo) returns
Ao2mo(m) == m

\* a micro exit test that asks for both norms to be small
MicroExit_And(nt, ng, tl) == nt < tl /\ ng < tl

\* norm_t < toloose or norm_gorb < toloose
MicroExit(nt, ng, tl) == nt < tl \/ ng < tl

\* a macro convergence test that forgets the density-matrix change
MacroConverged_NoDdm(el, et, t, ng, nd, tl) ==
    Abs(el - et) < t /\ ng < tl

\* abs(elast - e_tot) < tol and norm_gorb < toloose and norm_ddm < toloose
MacroConverged(el, et, t, ng, nd, tl) ==
    Abs(el - et) < t /\ ng < tl /\ nd < tl

\* ------------------------------------------------------------- helpers
\* one more call of collaborator c, which returned (ok) or raised (~ok)
Called(c, ok) ==
    /\ calls' = [calls EXCEPT ![c] = @ + 1]
    /\ lastCall' = <<c, ok>>

\* an exception leaves kernel: nothing in kernel catches it
Raise(e) ==
    /\ pc' = "raised"
    /\ exc' = e
    /\ ret' = NoResult

Goto(l) ==
    /\ pc' = l
    /\ UNCHANGED <<exc, ret>>

\* a kernel that returns the orbitals it was given
Return_InitialOrbitals(c) ==
    /\ pc' = "returned"
    /\ ret' = <<c, e_tot, e_ci, fcivec, mo_coeff>>
    /\ UNCHANGED exc

\* return conv, e_tot, e_ci, fcivec, mo
Return(c) ==
    /\ pc' = "returned"
    /\ ret' = <<c, e_tot, e_ci, fcivec, mo>>
    /\ UNCHANGED exc

\* ------------------------------------------------------------- Init
Init ==
    /\ macro \in 0 .. MaxMacro
    /\ micro \in 0 .. MaxMicro
    /\ tol \in Tolerances
    /\ toloose \in GradTolerances
    /\ \E oc \in OrbitalCounts : ncas = oc[1] /\ nmo = oc[2]
    /\ dump_chk \in BOOLEAN
    /\ callback \in BOOLEAN
    /\ mo_coeff = 1
    /\ jk \in 1 .. MaxJK
    /\ mo = mo_coeff
    /\ eris = NoEris
    /\ mo_gen = mo_coeff
    /\ e_tot = 0 /\ e_ci = 0 /\ fcivec = 0
    /\ elast = 0 /\ conv = FALSE
    /\ totmicro = 0 /\ totinner = 0
    /\ casdm1 = <<0, 0>> /\ casdm1_old = <<0, 0>> /\ casdm2 = 0
    /\ norm_ddm = 0
    /\ imacro = 0 /\ imicro = 0 /\ ninner = 0
    /\ rota = "none"
    /\ u = Eye /\ g_orb = 0 /\ njk = 0
    /\ norm_t = 0 /\ norm_gorb = 0
    /\ bound = {}
    /\ macroIt = 0 /\ microIt = 0
    /\ pc = "ao2mo"
    /\ exc = "none"
    /\ ret = NoResult
    /\ calls = [c \in Collaborators |-> 0]
    /\ lastCall = <<"none", TRUE>>
    /\ test = <<FALSE, FALSE, FALSE>>
    /\ hits = << >>
    /\ microAll = 0
    /\ innerAll = 0
    /\ casci_in = <<0, 0, NoEris>>
    /\ e_prev = 0
    /\ chk = <<FALSE, 0>>
    /\ cb = <<0, NoEris>>

\* ------------------------------------------------------------- actions
\* a kernel that catches the failure of a call and makes the call again
Fails_Retry(l, c) ==
    /\ pc = l
    /\ Called(c, FALSE)
    /\ Goto(l)
    /\ UNCHANGED <<args, handed, ghost, orbs, cires, dms, step, totals, loops,
                   elast, conv, ninner, rota, test>>

\* the call made at position l raises: kernel has no handler, so the
\* exception leaves it with the locals as they are
Fails(l, c) ==
    /\ pc = l
    /\ Called(c, FALSE)
    /\ Raise(c)
    /\ UNCHANGED <<args, handed, ghost, orbs, cires, dms, step, totals, loops,
                   elast, conv, ninner, rota, test>>

\* lines 22-26: mo = mo_coeff; eris = casscf.ao2mo(mo)
InitAo2mo ==
    \/ /\ pc = "ao2mo"
       /\ mo' = mo_coeff
       /\ eris' = Ao2mo(mo_coeff)
       /\ Called("ao2mo", TRUE)
       /\ Goto("casci")
       /\ UNCHANGED <<args, handed, ghost, cires, dms, step, totals, loops,
                      elast, conv, ninner, rota, test>>
    \/ Fails("ao2mo", "ao2mo")

\* line 27: e_tot, e_ci, fcivec = casscf.casci(mo, ci0, eris)
InitCasci ==
    \/ /\ pc = "casci"
       /\ \E et \in Energies : e_tot' = et /\ e_prev' = et
       /\ e_ci' = calls["casci"] + 1
       /\ fcivec' = calls["casci"] + 1
       /\ casci_in' = <<mo, 0, eris>>
       /\ Called("casci", TRUE)
       /\ Goto("full")
       /\ UNCHANGED <<args, innerAll, chk, cb, ghost, orbs, dms, step, totals, loops,
                      elast, conv, ninner, rota, test>>
    \/ Fails("casci", "casci")

\* a kernel without the early return of line 30
CheckFull_NoShortcut ==
    /\ pc = "full"
    /\ elast' = e_tot
    /\ conv' = FALSE
    /\ totmicro' = 0
    /\ totinner' = 0
    /\ casdm1' = <<0, 0>>
    /\ Goto("macro")
    /\ UNCHANGED <<casdm1_old, casdm2, norm_ddm>>
    /\ UNCHANGED <<args, handed, ghost, orbs, cires, step, loops, hist,
                   ninner, rota, test>>

\* lines 29-37: the active space is the whole orbital space, or the loop
\* variables are initialised
CheckFull ==
    /\ pc = "full"
    /\ IF ncas = nmo
       THEN /\ Return(TRUE)
            /\ UNCHANGED <<elast, conv, totals, dms>>
       ELSE /\ elast' = e_tot
            /\ conv' = FALSE
            /\ totmicro' = 0
            /\ totinner' = 0
            /\ casdm1' = <<0, 0>>
            /\ Goto("macro")
            /\ UNCHANGED <<casdm1_old, casdm2, norm_ddm>>
    /\ UNCHANGED <<args, handed, ghost, orbs, cires, step, loops, hist,
                   ninner, rota, test>>

\* a kernel that sets ninner to 0 once, before the macro loop
MacroHead_NoReset ==
    /\ pc = "macro"
    /\ IF macroIt < macro
       THEN /\ imacro' = macroIt
            /\ macroIt' = macroIt + 1
            /\ bound' = bound \cup {"imacro"}
            /\ test' = <<FALSE, FALSE, FALSE>>
            /\ casdm1_old' = casdm1
            /\ Goto("rdm")
       ELSE /\ Goto("finish")
            /\ UNCHANGED <<imacro, macroIt, bound, casdm1_old, test>>
    /\ UNCHANGED <<args, handed, ghost, orbs, cires, casdm1, casdm2, norm_ddm,
                   step, totals, imicro, microIt, hits, hist, elast, conv,
                   ninner, rota>>

\* lines 38-41: for imacro in range(macro): ninner = 0; casdm1_old = casdm1
MacroHead ==
    /\ pc = "macro"
    /\ IF macroIt < macro
       THEN /\ imacro' = macroIt
            /\ macroIt' = macroIt + 1
            /\ bound' = bound \cup {"imacro"}
            /\ test' = <<FALSE, FALSE, FALSE>>
            /\ ninner' = 0
            /\ casdm1_old' = casdm1
            /\ Goto("rdm")
       ELSE /\ Goto("finish")
            /\ UNCHANGED <<imacro, macroIt, bound, ninner,
                           casdm1_old, test>>
    /\ UNCHANGED <<args, handed, ghost, orbs, cires, casdm1, casdm2, norm_ddm, step, totals,
                   imicro, microIt, hits, hist,
                   elast, conv, rota>>

\* lines 42-45: casdm1, casdm2 = casscf.fcisolver.make_rdm12s(fcivec, ...)
\* and the density-matrix change; line 46 then starts a new range(micro)
MakeRdm ==
    \/ /\ pc = "rdm"
       /\ \E da \in DmEntries, db \in DmEntries :
            /\ casdm1' = <<da, db>>
            /\ norm_ddm' = NormDdm(<<da, db>>, casdm1_old)
       /\ casdm2' = fcivec
       /\ microIt' = 0
       /\ hits' = << >>
       /\ Called("make_rdm12s", TRUE)
       /\ Goto("micro")
       /\ UNCHANGED <<args, handed, ghost, orbs, cires, casdm1_old, step, totals,
                      imacro, imicro, bound, macroIt,
                      elast, conv, ninner, rota, test>>
    \/ Fails("rdm", "make_rdm12s")

\* line 46: for imicro in range(micro)
MicroHead ==
    /\ pc = "micro"
    /\ IF microIt < micro
       THEN /\ imicro' = microIt
            /\ microIt' = microIt + 1
            /\ bound' = bound \cup {"imicro"}
            /\ microAll' = microAll + 1
            /\ Goto("rotate")
       ELSE /\ Goto("micro_end")
            /\ UNCHANGED <<imicro, microIt, bound, microAll>>
    /\ UNCHANGED <<args, handed, mo_gen, orbs, cires, dms, step, totals,
                   imacro, macroIt, hits, hist,
                   elast, conv, ninner, rota, test>>

\* a kernel that creates the generator in the first micro iteration of a
\* macro iteration only and keeps it for the later ones
RotateOrbCc_PerMacro ==
    \/ /\ pc = "rotate"
       /\ rota' = "open"
       /\ IF microIt = 1
          THEN /\ mo_gen' = mo
               /\ Called("rotate_orb_cc", TRUE)
          ELSE UNCHANGED <<mo_gen, hist>>
       /\ Goto("next")
       /\ UNCHANGED <<args, handed, microAll, orbs, cires, dms, step, totals, loops,
                      elast, conv, ninner, test>>
    \/ Fails("rotate", "rotate_orb_cc")

\* line 48: rota = casscf.rotate_orb_cc(mo, casdm1, casdm2, eris, verbose=log)
RotateOrbCc ==
    \/ /\ pc = "rotate"
       /\ rota' = "open"
       /\ mo_gen' = mo
       /\ Called("rotate_orb_cc", TRUE)
       /\ Goto("next")
       /\ UNCHANGED <<args, handed, microAll, orbs, cires, dms, step, totals, loops,
                      elast, conv, ninner, test>>
    \/ Fails("rotate", "rotate_orb_cc")

\* line 49: u, g_orb, njk = rota.next()
RotaNext ==
    \/ /\ pc = "next"
       /\ \E r \in Rotations, g \in GradEntries :
            /\ u' = r
            /\ g_orb' = g
       /\ njk' = jk
       /\ innerAll' = innerAll + jk
       /\ rota' = "yielded"
       /\ Called("rota.next", TRUE)
       /\ Goto("close")
       /\ UNCHANGED <<args, casci_in, e_prev, chk, cb, ghost, orbs, cires, dms, norm_t, norm_gorb, totals,
                      loops, elast, conv, ninner, test>>
    \/ Fails("next", "rota.next")

\* a kernel that tests the gradient norm of an earlier step
ApplyRotation_StaleGradNorm ==
    /\ pc = "close"
    /\ rota' = "closed"
    /\ ninner' = ninner + njk
    /\ norm_t' = NormT(u)
    /\ mo' = Rotate(mo, u)
    /\ eris' = NoEris
    /\ Goto("ao2mo_micro")
    /\ UNCHANGED <<args, handed, ghost, cires, dms, u, g_orb, njk, norm_gorb,
                   totals, loops, hist, elast, conv, test>>

\* a kernel that forgets rota.close()
ApplyRotation_NoClose ==
    /\ pc = "close"
    /\ ninner' = ninner + njk
    /\ norm_t' = NormT(u)
    /\ norm_gorb' = NormG(g_orb)
    /\ mo' = Rotate(mo, u)
    /\ eris' = NoEris
    /\ Goto("ao2mo_micro")
    /\ UNCHANGED <<args, handed, ghost, cires, dms, u, g_orb, njk, totals, loops,
                   hist, elast, conv, test, rota>>

\* lines 50-58: rota.close(); the inner count and the two norms; the
\* rotation is applied; the stale integrals are dropped
ApplyRotation ==
    /\ pc = "close"
    /\ rota' = "closed"
    /\ ninner' = ninner + njk
    /\ norm_t' = NormT(u)
    /\ norm_gorb' = NormG(g_orb)
    /\ mo' = Rotate(mo, u)
    /\ eris' = NoEris
    /\ Goto("ao2mo_micro")
    /\ UNCHANGED <<args, handed, ghost, cires, dms, u, g_orb, njk, totals, loops, hist,
                   elast, conv, test>>

\* a kernel that keeps the integrals of the orbitals before the rotation
MicroAo2mo_Stale ==
    \/ /\ pc = "ao2mo_micro"
       /\ eris' = Ao2mo(mo_gen)
       /\ Called("ao2mo", TRUE)
       /\ Goto("callback")
       /\ UNCHANGED <<args, handed, ghost, mo, cires, dms, step, totals, loops,
                      elast, conv, ninner, rota, test>>
    \/ Fails("ao2mo_micro", "ao2mo")

\* line 59: eris = casscf.ao2mo(mo)
MicroAo2mo ==
    \/ /\ pc = "ao2mo_micro"
       /\ eris' = Ao2mo(mo)
       /\ Called("ao2mo", TRUE)
       /\ Goto("callback")
       /\ UNCHANGED <<args, handed, ghost, mo, cires, dms, step, totals, loops,
                      elast, conv, ninner, rota, test>>
    \/ Fails("ao2mo_micro", "ao2mo")

\* a kernel that tests for the early exit before it reports the iteration
Callback_SkipOnExit ==
    \/ /\ pc = "callback"
       /\ IF callback /\ ~(norm_t < toloose \/ norm_gorb < toloose)
          THEN /\ Called("callback", TRUE)
               /\ cb' = <<mo, eris>>
          ELSE UNCHANGED <<hist, cb>>
       /\ Goto("exit_test")
       /\ UNCHANGED <<args, innerAll, casci_in, e_prev, chk, ghost, orbs, cires,
                      dms, step, totals, loops, elast, conv, ninner, rota, test>>
    \/ (callback /\ Fails("callback", "callback"))

\* lines 65-66: if callable(callback): callback(locals())
Callback ==
    \/ /\ pc = "callback"
       /\ IF callback
          THEN /\ Called("callback", TRUE)
               /\ cb' = <<mo, eris>>
          ELSE UNCHANGED <<hist, cb>>
       /\ Goto("exit_test")
       /\ UNCHANGED <<args, innerAll, casci_in, e_prev, chk, ghost, orbs, cires, dms, step, totals, loops,
                      elast, conv, ninner, rota, test>>
    \/ (callback /\ Fails("callback", "callback"))

\* lines 69-70: if norm_t < toloose or norm_gorb < toloose: break
MicroExitTest ==
    /\ pc = "exit_test"
    /\ hits' = Append(hits, <<norm_t < toloose, norm_gorb < toloose>>)
    /\ IF MicroExit(norm_t, norm_gorb, toloose)
       THEN Goto("micro_end")
       ELSE Goto("micro")
    /\ UNCHANGED <<args, handed, ghost, orbs, cires, dms, step, totals,
                   imacro, imicro, bound, macroIt, microIt, hist, elast, conv, ninner, rota, test>>

\* lines 72-73: totinner += ninner; totmicro += imicro+1
\* imicro is read here; it is unbound when no micro iteration ever ran
MicroEnd ==
    /\ pc = "micro_end"
    /\ totinner' = totinner + ninner
    /\ IF "imicro" \in bound
       THEN /\ totmicro' = totmicro + imicro + 1
            /\ Goto("casci_macro")
       ELSE /\ Raise("UnboundLocalError")
            /\ UNCHANGED totmicro
    /\ UNCHANGED <<args, handed, ghost, orbs, cires, dms, step, loops, hist,
                   elast, conv, ninner, rota, test>>

\* a kernel that starts every CI solution from scratch
MacroCasci_ColdStart ==
    \/ /\ pc = "casci_macro"
       /\ \E et \in Energies : e_tot' = et
       /\ e_ci' = calls["casci"] + 1
       /\ fcivec' = calls["casci"] + 1
       /\ casci_in' = <<mo, 0, eris>>
       /\ e_prev' = e_tot
       /\ Called("casci", TRUE)
       /\ Goto("conv_test")
       /\ UNCHANGED <<args, innerAll, chk, cb, ghost, orbs, dms, step, totals,
                      loops, elast, conv, ninner, rota, test>>
    \/ Fails("casci_macro", "casci")

\* line 75: e_tot, e_ci, fcivec = casscf.casci(mo, fcivec, eris)
MacroCasci ==
    \/ /\ pc = "casci_macro"
       /\ \E et \in Energies : e_tot' = et
       /\ e_ci' = calls["casci"] + 1
       /\ fcivec' = calls["casci"] + 1
       /\ casci_in' = <<mo, fcivec, eris>>
       /\ e_prev' = e_tot
       /\ Called("casci", TRUE)
       /\ Goto("conv_test")
       /\ UNCHANGED <<args, innerAll, chk, cb, ghost, orbs, dms, step, totals, loops,
                      elast, conv, ninner, rota, test>>
    \/ Fails("casci_macro", "casci")

\* a convergence test that records the new energy whether it succeeded or not
ConvTest_AlwaysRecord ==
    /\ pc = "conv_test"
    /\ test' = <<Abs(elast - e_tot) < tol, norm_gorb < toloose,
                 norm_ddm < toloose>>
    /\ IF MacroConverged(elast, e_tot, tol, norm_gorb, norm_ddm, toloose)
       THEN conv' = TRUE
       ELSE UNCHANGED conv
    /\ elast' = e_tot
    /\ e_prev' = e_tot
    /\ Goto("dump_chk")
    /\ UNCHANGED <<args, innerAll, casci_in, chk, cb, ghost, orbs, cires, dms,
                   step, totals, loops, hist, ninner, rota>>

\* lines 84-88: the macro convergence test
ConvTest ==
    /\ pc = "conv_test"
    /\ test' = <<Abs(elast - e_tot) < tol, norm_gorb < toloose,
                 norm_ddm < toloose>>
    /\ IF MacroConverged(elast, e_tot, tol, norm_gorb, norm_ddm, toloose)
       THEN /\ conv' = TRUE
            /\ UNCHANGED elast
       ELSE /\ elast' = e_tot
            /\ UNCHANGED conv
    /\ e_prev' = e_tot
    /\ Goto("dump_chk")
    /\ UNCHANGED <<args, innerAll, casci_in, chk, cb, ghost, orbs, cires, dms,
                   step, totals, loops, hist, ninner, rota>>

\* a kernel that leaves the loop before it checkpoints a converged iteration
DumpChk_SkipWhenConverged ==
    \/ /\ pc = "dump_chk"
       /\ IF dump_chk /\ ~conv
          THEN /\ Called("dump_chk", TRUE)
               /\ chk' = <<conv, fcivec>>
          ELSE UNCHANGED <<hist, chk>>
       /\ Goto("break")
       /\ UNCHANGED <<args, innerAll, casci_in, e_prev, cb, ghost, orbs, cires,
                      dms, step, totals, loops, elast, conv, ninner, rota, test>>
    \/ (dump_chk /\ Fails("dump_chk", "dump_chk"))

\* lines 90-91: if dump_chk: casscf.dump_chk(locals())
DumpChk ==
    \/ /\ pc = "dump_chk"
       /\ IF dump_chk
          THEN /\ Called("dump_chk", TRUE)
               /\ chk' = <<conv, fcivec>>
          ELSE UNCHANGED <<hist, chk>>
       /\ Goto("break")
       /\ UNCHANGED <<args, innerAll, casci_in, e_prev, cb, ghost, orbs, cires, dms, step, totals, loops,
                      elast, conv, ninner, rota, test>>
    \/ (dump_chk /\ Fails("dump_chk", "dump_chk"))

\* lines 93-94: if conv: break
MacroBreak ==
    /\ pc = "break"
    /\ IF conv THEN Goto("finish") ELSE Goto("macro")
    /\ UNCHANGED <<args, handed, ghost, orbs, cires, dms, step, totals, loops, hist,
                   elast, conv, ninner, rota, test>>

\* lines 96-104: the closing log line reads imacro, which is unbound when
\* the macro loop body never ran; then return conv, e_tot, e_ci, fcivec, mo
Finish ==
    /\ pc = "finish"
    /\ IF "imacro" \in bound
       THEN Return(conv)
       ELSE Raise("UnboundLocalError")
    /\ UNCHANGED <<args, handed, ghost, orbs, cires, dms, step, totals, loops, hist,
                   elast, conv, ninner, rota, test>>

Next ==
    \/ InitAo2mo
    \/ InitCasci
    \/ CheckFull
    \/ MacroHead
    \/ MakeRdm
    \/ MicroHead
    \/ RotateOrbCc
    \/ RotaNext
    \/ ApplyRotation
    \/ MicroAo2mo
    \/ Callback
    \/ MicroExitTest
    \/ MicroEnd
    \/ MacroCasci
    \/ ConvTest
    \/ DumpChk
    \/ MacroBreak
    \/ Finish

Spec == Init /\ [][Next]_vars

TypeOK ==
    /\ pc \in {"ao2mo", "casci", "full", "macro", "rdm", "micro", "rotate",
               "next", "close", "ao2mo_micro", "callback", "exit_test",
               "micro_end", "casci_macro", "conv_test", "dump_chk", "break",
               "finish", "returned", "raised"}
    /\ exc \in Collaborators \cup {"none", "UnboundLocalError"}
    /\ rota \in {"none", "open", "yielded", "closed"}
    /\ bound \subseteq {"imacro", "imicro"}
    /\ conv \in BOOLEAN
    /\ macroIt \in 0 .. macro
    /\ microIt \in 0 .. micro

\* ------------------------------------------------------------- properties
Terminated == pc \in {"returned", "raised"}

\* every collaborator call made so far returned normally
AllCallsReturned == lastCall[2]

\* the positions of kernel inside the macro loop
InLoop ==
    pc \in {"macro", "rdm", "micro", "rotate", "next", "close", "ao2mo_micro",
            "callback", "exit_test", "micro_end", "casci_macro", "conv_test",
            "dump_chk", "break", "finish"}

\* the exit test number i of this macro iteration asked to leave the loop
Hit(i) == hits[i][1] \/ hits[i][2]

\* C1: when ncas = nmo kernel never enters the macro loop and calls no
\* collaborator but ao2mo and casci, each at most once; when it returns it
\* has called each exactly once and returns converged = True, the energies
\* and the CI vector of that one casci call and the orbitals it was given.
C1_FullActiveSpaceReturns ==
    (ncas = nmo) =>
        /\ ~InLoop
        /\ exc \in {"none", "ao2mo", "casci"}
        /\ \A c \in Collaborators \ {"ao2mo", "casci"} : calls[c] = 0
        /\ calls["ao2mo"] <= 1 /\ calls["casci"] <= 1
        /\ pc = "returned" =>
              /\ calls["ao2mo"] = 1 /\ calls["casci"] = 1
              /\ ret = <<TRUE, e_tot, 1, 1, mo_coeff>>

C1_Witness == pc = "returned" /\ ncas = nmo /\ macro = 2 /\ ret[2] = 1

\* C2 (as claimed): with macro = 0 and ncas # nmo, once every collaborator
\* call has returned kernel ends by returning converged = False with the
\* initial CASCI energy, having made one ao2mo call, one casci call and no
\* macro iteration.
C2_ZeroMacroReturnsInitial ==
    (macro = 0 /\ ncas # nmo /\ Terminated /\ AllCallsReturned) =>
        /\ pc = "returned"
        /\ ret = <<FALSE, elast, 1, 1, mo_coeff>>
        /\ macroIt = 0
        /\ calls["ao2mo"] = 1 /\ calls["casci"] = 1
        /\ calls["make_rdm12s"] = 0 /\ calls["rotate_orb_cc"] = 0

\* C3: when kernel returns after at least one macro iteration, the returned
\* flag is true exactly if the energy change, the gradient norm and the
\* density-matrix change were all below their tolerance in the convergence
\* test of the last macro iteration.
C3_ConvergedIffAllThree ==
    (pc = "returned" /\ macroIt >= 1) =>
        (ret[1] <=> (test[1] /\ test[2] /\ test[3]))

C3_Witness == pc = "returned" /\ macroIt = 2 /\ ret[1] = TRUE

\* C4 (as claimed): a failure of dump_chk never leaves kernel as an exception.
C4_DumpChkFailureSwallowed ==
    (lastCall = <<"dump_chk", FALSE>>) => (pc # "raised" /\ exc = "none")

\* C5 (as claimed): with tol <= 0, macro < 1 or micro < 1 no macro iteration
\* is started and neither make_rdm12s nor rotate_orb_cc is called.
C5_InvalidConfigRejectedEarly ==
    (tol <= 0 \/ macro < 1 \/ micro < 1) =>
        /\ macroIt = 0
        /\ calls["make_rdm12s"] = 0
        /\ calls["rotate_orb_cc"] = 0

\* a call of ao2mo, casci, make_rdm12s or rotate_orb_cc (creation of the
\* generator or retrieval of its step) has raised
CoreCallFailed ==
    /\ ~lastCall[2]
    /\ lastCall[1] \in {"ao2mo", "casci", "make_rdm12s", "rotate_orb_cc",
                        "rota.next"}

\* C6: once a call of ao2mo, casci, make_rdm12s or rotate_orb_cc has raised,
\* kernel has ended with that exception and without a result, and from then
\* on no collaborator is called (the failed call is not made again either).
C6_CoreFailureEndsKernel ==
    /\ [](CoreCallFailed =>
            (pc = "raised" /\ exc = lastCall[1] /\ ret = NoResult))
    /\ [][CoreCallFailed => UNCHANGED <<calls, pc, exc, ret>>]_vars

C6_Witness ==
    /\ CoreCallFailed
    /\ lastCall[1] = "rota.next"
    /\ macroIt = 2 /\ microIt = 2
    /\ pc = "raised"

\* C7 (as claimed): when kernel has ended and every collaborator call
\* returned, it ran at most macro macro iterations with at most micro micro
\* iterations in the last one, and it ran fewer than macro macro iterations
\* only if the convergence test of the last one succeeded.
C7_EarlyExitOnlyByConvergence ==
    (Terminated /\ AllCallsReturned /\ ncas # nmo) =>
        /\ macroIt <= macro
        /\ microIt <= micro
        /\ macroIt < macro => (conv /\ test[1] /\ test[2] /\ test[3])

\* C7 for argument values the loops accept (macro >= 1 and micro >= 1): there
\* the statement holds.
C7_HoldsForValidCounts ==
    (macro >= 1 /\ micro >= 1) => C7_EarlyExitOnlyByConvergence

\* C7, termination: kernel is sequential, so it keeps taking steps while it
\* has not ended; then it ends, by a return or an exception.
FairSpec == Spec /\ WF_vars(Next)
C7_Terminates == <>Terminated

\* C9: with micro >= 1, when the micro loop of a macro iteration has been
\* left it ran k micro iterations, 1 <= k <= micro, none of the first k-1
\* exit tests asked to leave, and the k-th did unless k = micro; and each
\* exit test is made with the rotation of its iteration applied and the
\* integrals transformed from the rotated orbitals.
C9_MicroLoopLength ==
    /\ (micro >= 1 /\ pc \in {"micro_end", "casci_macro", "conv_test",
                              "dump_chk", "break"}) =>
          /\ microIt \in 1 .. micro
          /\ Len(hits) = microIt
          /\ \A i \in 1 .. (microIt - 1) : ~Hit(i)
          /\ ~Hit(microIt) => microIt = micro
    /\ (pc = "exit_test") =>
          /\ Len(hits) = microIt - 1
          /\ mo = Rotate(mo_gen, u)
          /\ eris = Ao2mo(mo)
          /\ calls["ao2mo"] = 1 + microAll

C9_Witness ==
    /\ pc = "micro_end" /\ micro = 2 /\ microIt = 1
    /\ hits = << <<FALSE, TRUE>> >>
    /\ u # Eye

\* C10 (as claimed): at return the number of rotate_orb_cc calls equals the
\* number of macro iterations executed.
C10_OneGeneratorPerMacro ==
    (pc = "returned") => (calls["rotate_orb_cc"] = macroIt)

\* C10 (amended): one generator is created in every micro iteration: at any
\* time the number of rotate_orb_cc calls is the number of micro iterations
\* entered, less the one whose call is still to be made; so at return it is
\* the total number of micro iterations executed, which is at least the
\* number of macro iterations.
C10_OneGeneratorPerMicro ==
    /\ calls["rotate_orb_cc"] = (IF pc = "rotate" THEN microAll - 1 ELSE microAll)
    /\ (pc = "returned") =>
          /\ calls["rotate_orb_cc"] = microAll
          /\ calls["rotate_orb_cc"] >= macroIt
          /\ macroIt >= 1 => calls["rotate_orb_cc"] = totmicro

C10_Witness ==
    pc = "returned" /\ macroIt = 2 /\ calls["rotate_orb_cc"] = 3

\* the positions of a micro iteration at which its ao2mo call is still to
\* be made
BeforeMicroAo2mo == pc \in {"rotate", "next", "close", "ao2mo_micro"}

\* C11: a generator is open only between its creation and its close: while
\* one is open kernel is at rota.next() or rota.close() (or has ended by the
\* failure of rota.next()), so no other collaborator is called and no other
\* generator created meanwhile; a step is asked only of a generator just
\* created, never of one that has yielded or is closed, so no generator is
\* asked for a second step; and after a return no generator is open.
C11_OneStepThenClose ==
    /\ rota = "open" =>
          (pc = "next" \/ (pc = "raised" /\ exc = "rota.next"))
    /\ rota = "yielded" => pc = "close"
    /\ pc = "next" => rota = "open"
    /\ pc \in {"ao2mo", "casci", "rdm", "rotate", "ao2mo_micro", "callback",
               "casci_macro", "dump_chk", "returned"} =>
          rota \in {"none", "closed"}
    /\ calls["rota.next"] <= calls["rotate_orb_cc"]
    /\ (pc # "raised" /\ rota \in {"yielded", "closed"}) =>
          calls["rota.next"] = calls["rotate_orb_cc"]

C11_Witness ==
    pc = "rotate" /\ rota = "closed" /\ calls["rota.next"] = 2 /\ microIt = 2

\* C12: casci and rotate_orb_cc are always handed the integrals transformed
\* from the orbitals handed with them, and ao2mo has been called once
\* initially and once in every micro iteration.
C12_IntegralsFresh ==
    /\ pc \in {"casci", "rotate", "casci_macro"} => eris = Ao2mo(mo)
    /\ (pc # "raised" /\ pc # "ao2mo") =>
          calls["ao2mo"] = (IF BeforeMicroAo2mo THEN microAll ELSE 1 + microAll)

C12_Witness ==
    /\ pc = "casci_macro" /\ microIt = 2 /\ macroIt = 2
    /\ mo # mo_coeff /\ u # Eye
    /\ calls["ao2mo"] = 4

\* C13: at every macro convergence test elast is the total energy the casci
\* call before this iteration's casci call returned, and the test sets it to
\* the new total energy exactly if it fails.
C13_PreviousEnergy ==
    /\ [](pc = "conv_test" => elast = e_prev)
    /\ [][pc = "conv_test" =>
            elast' = (IF test'[1] /\ test'[2] /\ test'[3]
                      THEN elast ELSE e_tot)]_vars

C13_Witness ==
    /\ pc = "dump_chk" /\ macroIt = 2
    /\ test = <<TRUE, TRUE, TRUE>>
    /\ elast # e_tot

\* the positions of a macro iteration from its first micro iteration to its
\* casci call
MicroPhase ==
    pc \in {"micro", "rotate", "next", "close", "ao2mo_micro", "callback",
            "exit_test", "micro_end", "casci_macro"}

\* C14: with checkpointing enabled dump_chk has been called once in every
\* macro iteration that has come to its end, always after the casci call and
\* the convergence test of the iteration and before the loop is left or
\* continued, so the last checkpoint of a run that returns holds the returned
\* convergence flag and wavefunction; with checkpointing disabled it is
\* never called.
C14_CheckpointEveryMacro ==
    /\ ~dump_chk => calls["dump_chk"] = 0
    /\ (dump_chk /\ pc # "raised") =>
          calls["dump_chk"] =
             (IF pc = "rdm" \/ MicroPhase \/ pc \in {"conv_test", "dump_chk"}
              THEN macroIt - 1 ELSE macroIt)
    /\ (dump_chk /\ pc = "break") =>
          /\ lastCall = <<"dump_chk", TRUE>>
          /\ chk = <<conv, fcivec>>
          /\ chk[2] = macroIt + 1
          /\ chk[1] = (test[1] /\ test[2] /\ test[3])
    /\ (dump_chk /\ pc = "returned" /\ macroIt >= 1) =>
          chk = <<ret[1], ret[4]>>

C14_Witness ==
    /\ pc = "returned" /\ dump_chk /\ macroIt = 2
    /\ ret[1] /\ chk[1] /\ calls["dump_chk"] = 2

\* what the callback step may change: the call record alone
KernelState ==
    <<args, innerAll, casci_in, e_prev, chk, ghost, orbs, cires, dms, step,
      totals, loops, elast, conv, ninner, rota, test>>

\* C15: a callable callback has been called once in every micro iteration
\* that has passed line 66, the exiting one included, with the rotated
\* orbitals and the integrals recomputed from them and before the exit test
\* of the iteration; without a callable it is never called; and the step
\* leaves the state of kernel as it is whether or not it calls, so the calls
\* that follow are the same.
C15_CallbackEveryMicro ==
    /\ [](~callback => calls["callback"] = 0)
    /\ []((callback /\ pc # "raised") =>
            calls["callback"] =
               (IF BeforeMicroAo2mo \/ pc = "callback"
                THEN microAll - 1 ELSE microAll))
    /\ []((callback /\ pc = "exit_test") =>
            /\ lastCall = <<"callback", TRUE>>
            /\ cb = <<mo, eris>>
            /\ eris = Ao2mo(mo)
            /\ mo = Rotate(mo_gen, u)
            /\ Len(hits) = microIt - 1)
    /\ [][(pc = "callback" /\ pc' # "raised") =>
            (pc' = "exit_test" /\ UNCHANGED KernelState)]_vars

C15_Witness ==
    /\ pc = "micro_end" /\ callback /\ micro = 2 /\ microIt = 1
    /\ calls["callback"] = 1 /\ cb[1] # mo_coeff

\* C16: make_rdm12s has been called once in every macro iteration, before
\* the first rotate_orb_cc call of the iteration and with the wavefunction
\* of the latest casci call; the density matrices stay those through all
\* micro iterations; the casci call that ends the iteration is seeded with
\* that wavefunction and its output replaces it.
C16_WavefunctionThreading ==
    /\ pc # "raised" =>
          calls["make_rdm12s"] = (IF pc = "rdm" THEN macroIt - 1 ELSE macroIt)
    /\ (pc = "rotate" /\ microIt = 1) => lastCall = <<"make_rdm12s", TRUE>>
    /\ MicroPhase => (casdm2 = fcivec /\ fcivec = calls["casci"])
    /\ pc = "conv_test" =>
          /\ casci_in[2] = casdm2
          /\ fcivec = casci_in[2] + 1
          /\ fcivec = calls["casci"]

C16_Witness ==
    /\ pc = "conv_test" /\ macroIt = 2 /\ microIt = 2
    /\ fcivec = 3 /\ casdm2 = 2

\* C17: when kernel returns after the loop, totmicro is the number of micro
\* iterations made, which is the number of steps taken from generators, and
\* totinner is the sum of the inner counts returned with those steps; ninner
\* is 0 when a macro iteration starts, and the totals only grow by what the
\* iteration added.
C17_TotalsExact ==
    /\ (pc = "returned" /\ macroIt >= 1) =>
          /\ totmicro = microAll
          /\ totmicro = calls["rota.next"]
          /\ totinner = innerAll
    /\ pc = "rdm" => ninner = 0
    /\ pc \in {"rdm", "micro", "rotate", "next", "ao2mo_micro", "callback",
               "exit_test", "micro_end"} => totinner + ninner = innerAll
    /\ pc = "close" => totinner + ninner + njk = innerAll
    /\ pc \in {"casci_macro", "conv_test", "dump_chk", "break", "macro",
               "finish"} => (totinner = innerAll /\ totmicro = microAll)

C17_Witness ==
    /\ pc = "returned" /\ macroIt = 2
    /\ totmicro = 3 /\ totinner = 6 /\ jk = 2

\* C18: when kernel returns after at least one macro iteration, the total
\* energy, active-space energy and wavefunction it returns are the outputs
\* of the last casci call, that call was handed the returned orbitals and
\* the integrals transformed from them, and nothing but dump_chk was called
\* after it.
C18_ResultOfLastCasci ==
    (pc = "returned" /\ macroIt >= 1) =>
        /\ ret[1] = conv
        /\ ret[2] = e_tot
        /\ ret[3] = calls["casci"]
        /\ ret[4] = calls["casci"]
        /\ ret[5] = casci_in[1]
        /\ casci_in[3] = Ao2mo(casci_in[1])
        /\ casci_in[2] = calls["casci"] - 1
        /\ lastCall \in {<<"casci", TRUE>>, <<"dump_chk", TRUE>>}

C18_Witness ==
    /\ pc = "returned" /\ macroIt = 2 /\ microAll = 3
    /\ ret[5] # mo_coeff /\ ret[4] = 3

\* C19: through the first macro iteration the previous density matrices are
\* zero and norm_ddm is the sum of the norms of the two 1-particle density
\* matrices, so kernel returns converged after one macro iteration only if
\* that sum is below conv_tol_grad.
C19_FirstIterationDdm ==
    /\ (macroIt = 1 /\ (MicroPhase \/ pc \in {"conv_test", "dump_chk", "break"})) =>
          /\ casdm1_old = <<0, 0>>
          /\ norm_ddm = Abs(casdm1[1]) + Abs(casdm1[2])
    /\ (pc = "returned" /\ macroIt = 1 /\ ret[1]) =>
          Abs(casdm1[1]) + Abs(casdm1[2]) < toloose

C19_Witness ==
    /\ pc = "returned" /\ macroIt = 1 /\ ret[1]
    /\ casdm1 = <<0, 1>> /\ toloose = 2

\* C20: the gradient norm of the macro convergence test is the norm of the
\* gradient returned by the generator of the last micro step, a generator
\* made from the orbitals as they were before the rotation of that step, and
\* rotate_orb_cc is not called again after that rotation; so a converged
\* run returns those orbitals times the last rotation.
C20_GradientBeforeRotation ==
    /\ pc = "conv_test" =>
          /\ norm_gorb = NormG(g_orb)
          /\ mo = Rotate(mo_gen, u)
          /\ calls["rotate_orb_cc"] = microAll
          /\ calls["rota.next"] = microAll
    /\ (pc = "returned" /\ macroIt >= 1 /\ ret[1]) =>
          /\ test[2] = (NormG(g_orb) < toloose)
          /\ ret[5] = Rotate(mo_gen, u)
          /\ calls["rotate_orb_cc"] = microAll

C20_Witness ==
    /\ pc = "returned" /\ macroIt = 2 /\ ret[1]
    /\ u # Eye /\ ret[5] # mo_gen

====
